---- MODULE Spec2Model ----
(***************************************************************************)
(* The synthetic transaction generator of generate_data_enhanced.py as a   *)
(* state machine: seeding, the population loop, the monthly volume         *)
(* scheduler, the transaction sampling loop (one step per random draw),    *)
(* and the final sort; and the cleaning stage of data_pipeline.py, which   *)
(* reads the table the generator wrote.                                    *)
(*                                                                         *)
(* Numbers.  Money is held in paise (1/100 rupee), processing time in      *)
(* 1/100 s, weights in 1/100 (boosted weights in 1/10000), so that every   *)
(* round(x, 2) of the source is a rounding to an integer.                  *)
(*                                                                         *)
(* Randomness.  random.random() returns u / RandRes for an integer u in    *)
(* 0 .. RandRes-1, and every choice, randint and uniform of the source is  *)
(* computed from u as the library computes it from random().  The stream   *)
(* of values the seed selects is fixed but unknown: the variable stream    *)
(* holds the part of it drawn so far, a first execution extends it and a   *)
(* second execution, seeded alike, reads it again.  Of the values a draw   *)
(* can return the model follows a few per draw site (site_draws), and lets *)
(* the sites of one group at a time (focus) range over theirs.             *)
(***************************************************************************)
EXTENDS Integers, Sequences, FiniteSets, TLC

VARIABLES
  pc,                  \* position in the script
  focus,               \* the group of draw sites that range over their samples
  stream,              \* the values the seeded source has returned, in order
  rng,                 \* state of the shared random source: [seeded, pos]
  N,                   \* requested number of transactions
  population_size,     \* number of users (500 in the source)
  monthly_multiplier,  \* month 1..12 -> seasonal multiplier, in 1/100
  method_weights,      \* base payment-method weights, in 1/100
  cat_weights,         \* base category weights, in 1/100
  table_keys,          \* the categories that are keys of merchants, of amount_ranges
  user_profiles,       \* user index -> profile record, in creation order
  ui,                  \* population loop: index into user_ids
  profile_draft,       \* fields of the user being built
  monthly_txn_counts,  \* counts of the months scheduled so far, in all_months order
  remaining,           \* scheduler: transactions not yet given to a month
  mi,                  \* generation loop: index into all_months
  cnt,                 \* generation loop: transactions already made in month mi
  txn_counter,         \* number of transactions started
  step,                \* position inside the body of the generation loop
  txn,                 \* locals of the transaction being sampled
  draw_log,            \* draw sites of the current transaction, in draw order
  records,             \* appended transaction rows, in generation order
  df,                  \* the emitted (sorted) transaction table
  user_df,             \* the emitted user table
  tie_order,           \* how this build's argsort orders equal keys
  run,                 \* 1 or 2: which execution of the script this is
  first_out,           \* the tables the first execution emitted
  error,               \* the exception that ended the run, if one did
  cleaned              \* the table the cleaning stage emitted

vars == <<pc, focus, stream, rng, N, population_size, monthly_multiplier, method_weights,
          cat_weights, table_keys, user_profiles, ui, profile_draft,
          monthly_txn_counts, remaining, mi, cnt, txn_counter, step, txn, draw_log,
          records, df, user_df, tie_order, run, first_out, error, cleaned>>

-----------------------------------------------------------------------------
(* Bounds of the model. *)

\* Resolution of random.random(): u / RandRes, u in 0 .. RandRes-1.
RandRes == 1000

\* Largest requested transaction count N of the full generator.
MaxN == 3

\* Largest population size.
MaxUsers == 2

\* Largest N the volume scheduler is run on alone.
MaxVolN == 130

\* Python's None.
None == "<None>"

-----------------------------------------------------------------------------
(* Arithmetic helpers. *)

Min(a, b) == IF a < b THEN a ELSE b

Max(a, b) == IF a > b THEN a ELSE b

RECURSIVE SumSeq(_)
SumSeq(s) == IF s = <<>> THEN 0 ELSE Head(s) + SumSeq(Tail(s))

\* round(n / d) for n >= 0, d > 0, ties to even: Python's round().
RoundDiv(n, d) ==
  LET q == n \div d
      r == n % d
  IN  IF 2 * r < d THEN q
      ELSE IF 2 * r > d THEN q + 1
      ELSE IF q % 2 = 0 THEN q ELSE q + 1

\* floor(a * b / d) computed without forming a * b * ... beyond 32 bits:
\* a * b must fit, the scaling by k is applied to quotient and remainder.
ScaledFloor(a, b, k, d) ==
  LET x == a * b
  IN  (x \div d) * k + ((x % d) * k) \div d

-----------------------------------------------------------------------------
(* Configuration tables of the source. *)

monthly_multiplier_default ==
  <<115, 90, 105, 95, 90, 85, 100, 110, 105, 130, 135, 120>>

\* Other multiplier tables with positive entries: flat, one spike, tiny.
MultiplierTables ==
  { monthly_multiplier_default,
    [m \in 1..12 |-> 100],
    [m \in 1..12 |-> IF m = 2 THEN 10000 ELSE 100],
    [m \in 1..12 |-> 10] }

\* A multiplier table that puts a third of the volume in each November.
festive_multiplier == [m \in 1..12 |-> IF m = 11 THEN 10000 ELSE 100]

\* A multiplier table that puts a third of the volume in each February.
february_multiplier == [m \in 1..12 |-> IF m = 2 THEN 10000 ELSE 100]

\* The groups of draw sites that run on a table of their own.
focus_multiplier ==
  "months" :> festive_multiplier @@ "calendar" :> february_multiplier

\* all_months = [(y, m) for y in [2024, 2025] for m in range(1, 13)]
NumMonths == 24

YearOf(i) == 2024 + (i - 1) \div 12

MonthOf(i) == ((i - 1) % 12) + 1

\* total_weight = sum(monthly_multiplier[m] for _, m in all_months), exactly.
total_weight(mult) == SumSeq([i \in 1..NumMonths |-> mult[MonthOf(i)]])

\* Whether the float sum total_weight exceeds the exact sum.  It does for
\* the source's table (25.600000000000005) and for the table of 0.1
\* (2.400000000000001); the sums 24.0 and 222.0 are exact.
TotalRoundsUp(mult) ==
  \/ mult = monthly_multiplier_default
  \/ mult = [m \in 1..12 |-> 10]

\* round(...) in place of int(...): a variant of the month's count.
MonthCountRounded(n, mult, month) ==
  (2 * n * mult[month] + total_weight(mult)) \div (2 * total_weight(mult))

MonthCountExact(n, mult, month) == (n * mult[month]) \div total_weight(mult)

\* int(N * (monthly_multiplier[month] / total_weight)) in double arithmetic:
\* the exact floor, except that a float total above the exact one pulls an
\* exact integer quotient just below the integer.
MonthCount(n, mult, month) ==
  LET x == n * mult[month]
      t == total_weight(mult)
  IN  IF TotalRoundsUp(mult) /\ x % t = 0 /\ x > 0
      THEN x \div t - 1
      ELSE x \div t

-----------------------------------------------------------------------------
(* The random source and the library calls made on it. *)

\* The state the interpreter leaves the random source in before the script
\* seeds it: seeded from the operating system, its values are anyone's guess.
UnseededState == [seeded |-> FALSE, pos |-> 0]

\* random.seed(42): the source restarts at the head of the seed's stream
\* (a variant: the call is missing and the source stays as it was).
SeedSkipped(cur) == cur

SeededState(cur) == [seeded |-> TRUE, pos |-> 0]

RECURSIVE CumSum(_, _)
CumSum(w, k) == IF k = 0 THEN 0 ELSE CumSum(w, k - 1) + w[k]

\* bisect(cum_weights, random() * total, 0, n - 1) of random.choices, 1-based:
\* the first index whose cumulative weight exceeds u / RandRes * total, and
\* the last index when there is none before it (a variant: the first index
\* whose cumulative weight reaches it).
RECURSIVE BisectLeft(_, _, _)
BisectLeft(w, u, k) ==
  IF k >= Len(w) THEN Len(w)
  ELSE IF CumSum(w, k) * RandRes >= u * CumSum(w, Len(w)) THEN k
  ELSE BisectLeft(w, u, k + 1)

RECURSIVE Bisect(_, _, _)
Bisect(w, u, k) ==
  IF k >= Len(w) THEN Len(w)
  ELSE IF CumSum(w, k) * RandRes > u * CumSum(w, Len(w)) THEN k
  ELSE Bisect(w, u, k + 1)

\* random.choices(population, weights=w, k=1)[0]
Choices(population, w, u) == population[Bisect(w, u, 1)]

\* random.choice(seq): seq[randbelow(len(seq))]
Choice(s, u) == s[((u * Len(s)) \div RandRes) + 1]

\* random.randint(a, b): a + randbelow(b - a + 1)
RandInt(a, b, u) == a + (u * (b - a + 1)) \div RandRes

\* random.uniform(a, b) = a + (b - a) * random(), for a, b in units of
\* 1/k of the result's unit (the result is floored to its unit).
Uniform(a, b, k, u) == a * k + ScaledFloor(b - a, u, k, RandRes)

\* random.random() < p / q
Below(u, p, q) == u * q < p * RandRes

-----------------------------------------------------------------------------
(* The values of random.random() the model follows. *)

\* Per draw site, as u of u / RandRes: the value drawn while the site is
\* pinned, and the values it ranges over while its group is in focus.  They
\* are picked to reach the outcomes named beside them.
site_draws ==
  \* the population loop
  "city" :> [pin |-> 0, free |-> {0, 999}] @@                \* Mumbai, Guwahati
  "age_group" :> [pin |-> 500, free |-> {500}] @@
  "gender" :> [pin |-> 0, free |-> {0}] @@
  "account_tenure" :> [pin |-> 500, free |-> {500}] @@
  "customer_tier" :> [pin |-> 500, free |-> {500}] @@
  "spending_persona" :> [pin |-> 500, free |-> {0, 500, 800, 999}] @@  \* all four
  "preferred_method" :> [pin |-> 0, free |-> {0, 500, 999}] @@         \* UPI, CC, Wallet
  \* the generation loop
  "user_id" :> [pin |-> 0, free |-> {0, 999}] @@             \* first, last user
  "day" :> [pin |-> 500, free |-> {0, 860, 999}] @@          \* 1st, a Saturday, last
  "hour" :> [pin |-> 500, free |-> {0, 400, 500}] @@         \* 0 h, 13 h (peak), 14 h
  "minute" :> [pin |-> 500, free |-> {0, 999}] @@
  "second" :> [pin |-> 500, free |-> {0, 999}] @@
  "method" :> [pin |-> 0, free |-> {0, 700, 850, 999}] @@    \* UPI, CC, NB, Wallet
  "category" :> [pin |-> 250, free |-> {0, 250, 500, 600, 900, 999}] @@
                       \* Food, Shopping, Bills, Travel, Groceries, Investments
  "merchant" :> [pin |-> 0, free |-> {0, 999}] @@
  "amount" :> [pin |-> 500, free |-> {0, 400, 999}] @@       \* lo, middle, hi
  "is_failed" :> [pin |-> 999, free |-> {0, 100, 999}] @@    \* 100: fails at peak only
  "failure_reason" :> [pin |-> 0, free |-> {0, 999}] @@
  "is_pending" :> [pin |-> 999, free |-> {0, 29, 30, 999}] @@      \* around 0.03
  "platform" :> [pin |-> 0, free |-> {0, 500, 750, 999}] @@  \* all four
  "processing_time" :> [pin |-> 500, free |-> {0, 999}] @@
  "cashback_roll" :> [pin |-> 999, free |-> {0, 200, 999}] @@      \* 200: 0.25 only
  "cashback_amount" :> [pin |-> 500, free |-> {0, 999}] @@
  "discount_roll" :> [pin |-> 999, free |-> {0, 999}] @@
  "discount_amount" :> [pin |-> 500, free |-> {0, 999}] @@
  "fraud_high" :> [pin |-> 999, free |-> {0, 999}] @@
  "fraud_night" :> [pin |-> 999, free |-> {0, 999}] @@
  "fraud_generic" :> [pin |-> 999, free |-> {0, 7, 8, 999}] @@     \* around 0.008
  "fraud_generic_reason" :> [pin |-> 0, free |-> {0, 999}] @@
  "refund_roll" :> [pin |-> 999, free |-> {0, 999}] @@
  "refund_full" :> [pin |-> 0, free |-> {0, 999}] @@
  "refund_amount" :> [pin |-> 500, free |-> {0, 999}] @@
  "device_type" :> [pin |-> 0, free |-> {0, 800, 999}]       \* every device

\* The groups of draw sites: one group at a time ranges over its values.
focus_sites ==
  "status" :> {"hour", "method", "is_failed", "failure_reason", "is_pending",
               "processing_time"} @@
  "rewards" :> {"is_pending", "method", "category", "cashback_roll",
                "cashback_amount", "discount_roll", "discount_amount"} @@
  "fraud" :> {"hour", "category", "amount", "fraud_high", "fraud_night",
              "fraud_generic", "fraud_generic_reason"} @@
  "refund" :> {"is_failed", "is_pending", "category", "amount", "refund_roll",
               "refund_full", "refund_amount"} @@
  "amount" :> {"spending_persona", "category", "amount"} @@
  "device" :> {"platform", "device_type"} @@
  "users" :> {"city", "user_id"} @@
  "time" :> {"day"} @@
  "weights" :> {"day", "category"} @@
  "months" :> {"category"} @@
  "calendar" :> {"day"} @@
  "defect" :> {"category"}

\* The groups that follow several transactions of several users; the other
\* groups follow one user: "months" three transactions, in two Novembers and
\* a December, "calendar" three, in two Februaries and a December, "defect"
\* two transactions, the rest one, of December 2025.
list_focuses == {"users", "time"}

\* The groups whose category weight table has a weight of 0.
weight_focuses == {"weights", "months"}

Samples(site) ==
  IF site \in focus_sites[focus]
  THEN site_draws[site].free
  ELSE {site_draws[site].pin}

\* The values the next random.random() can return: the next value of the
\* seed's stream when that is known, and any sample of the site otherwise.
Draws(site) ==
  IF rng.seeded /\ rng.pos < Len(stream)
  THEN {stream[rng.pos + 1]}
  ELSE Samples(site)

\* random.random() returned u: the source moves on, and a seeded source
\* reading past the known part of its stream makes u part of it.
Consume(u) ==
  /\ rng' = [rng EXCEPT !.pos = @ + 1]
  /\ stream' = IF rng.seeded /\ rng.pos >= Len(stream)
               THEN Append(stream, u) ELSE stream

-----------------------------------------------------------------------------
(* 1. User profiles. *)

age_groups == <<"18-24", "25-34", "35-44", "45-54", "55+">>

age_weights == <<18, 35, 25, 14, 8>>

genders == <<"Male", "Female", "Other">>

gender_weights == <<52, 46, 2>>

account_tenures ==
  <<"0-6 months", "6-12 months", "1-2 years", "2-5 years", "5+ years">>

tenure_weights == <<12, 15, 25, 30, 18>>

customer_tiers == <<"New", "Regular", "Premium", "VIP">>

tier_weights == <<15, 45, 28, 12>>

cities ==
  <<"Mumbai", "Delhi", "Bangalore", "Hyderabad", "Chennai",
    "Pune", "Kolkata", "Ahmedabad", "Jaipur", "Lucknow",
    "Chandigarh", "Indore", "Coimbatore", "Kochi", "Guwahati">>

city_weights == <<16, 14, 14, 10, 9, 7, 6, 5, 4, 4, 3, 3, 2, 2, 1>>

personas == <<"Budget", "Moderate", "High Spender", "Impulse">>

persona_weights == <<30, 40, 20, 10>>

payment_methods ==
  <<"UPI", "Credit Card", "Debit Card", "Net Banking", "Mobile Wallet">>

method_weights_default == <<40, 18, 15, 12, 15>>

\* The seven draws of one user, in the order of the source.
profile_fields ==
  << [name |-> "city",             pop |-> cities,          w |-> city_weights],
     [name |-> "age_group",        pop |-> age_groups,      w |-> age_weights],
     [name |-> "gender",           pop |-> genders,         w |-> gender_weights],
     [name |-> "account_tenure",   pop |-> account_tenures, w |-> tenure_weights],
     [name |-> "customer_tier",    pop |-> customer_tiers,  w |-> tier_weights],
     [name |-> "spending_persona", pop |-> personas,        w |-> persona_weights],
     [name |-> "preferred_method", pop |-> payment_methods,
      w |-> method_weights_default] >>

\* The decimal digits of n >= 0, most significant first: str(n).
RECURSIVE Digits(_)
Digits(n) == IF n < 10 THEN <<n>> ELSE Append(Digits(n \div 10), n % 10)

\* s.zfill(width): zeros on the left up to width, never a cut.
RECURSIVE ZFill(_, _)
ZFill(s, width) == IF Len(s) >= width THEN s ELSE ZFill(<<0>> \o s, width)

\* f"USR{str(i).zfill(5)}"
\* f"USR{str(i).zfill(5)}" (a variant: the prefix without the number).
UserIdPrefixOnly(i) == <<"USR">>

UserId(i) == <<"USR">> \o ZFill(Digits(i), 5)

\* user_ids = [UserId(i) for i in range(1, population_size + 1)]
user_ids == [i \in 1..population_size |-> UserId(i)]

\* Position of key in a dict held as a sequence of entries, 0 when absent.
KeyIndex(d, key) ==
  IF \E k \in 1..Len(d) : d[k].user_id = key
  THEN CHOOSE k \in 1..Len(d) : d[k].user_id = key
  ELSE 0

\* d[entry.user_id] = entry: replaces the entry of an existing key in place,
\* and appends a new key.
DictSet(d, entry) ==
  LET k == KeyIndex(d, entry.user_id)
  IN  IF k = 0 THEN Append(d, entry) ELSE [d EXCEPT ![k] = entry]

-----------------------------------------------------------------------------
(* 2-4. Payment methods, categories, failures, platforms, seasons. *)

categories ==
  <<"Food & Dining", "Shopping", "Bills & Utilities", "Travel",
    "Entertainment", "Health", "Education", "Transfers", "Groceries",
    "Investments">>

cat_weights_default == <<20, 17, 15, 10, 9, 6, 4, 6, 8, 5>>

\* The keys of merchants and of amount_ranges: every category.
table_keys_default ==
  [ merchants |-> {categories[k] : k \in 1..Len(categories)},
    amount_ranges |-> {categories[k] : k \in 1..Len(categories)} ]

\* Tables with a defect: a category of the weight table that is missing
\* from merchants, or from amount_ranges.
DefectiveTableKeys ==
  { [table_keys_default EXCEPT !.merchants = @ \ {"Travel"}],
    [table_keys_default EXCEPT !.amount_ranges = @ \ {"Bills & Utilities"}] }

\* Category weight tables with a weight of 0: for the first category, for
\* one in the middle, for the last.
ZeroWeightTables ==
  { [cat_weights_default EXCEPT ![k] = 0] : k \in {1, 2, Len(categories)} }

merchants ==
  "Food & Dining" :> <<"Swiggy", "Zomato", "Dominos", "McDonalds", "Starbucks",
                       "KFC", "Pizza Hut", "Haldirams">> @@
  "Shopping" :> <<"Amazon", "Flipkart", "Myntra", "Ajio", "Meesho", "Nykaa",
                  "Croma", "Reliance Digital">> @@
  "Bills & Utilities" :> <<"Jio Recharge", "Airtel", "Electricity Board",
                           "Gas Agency", "Water Board", "Broadband Bill",
                           "DTH Recharge">> @@
  "Travel" :> <<"IRCTC", "MakeMyTrip", "Uber", "Ola", "RedBus", "Yatra",
                "GoIbibo", "Rapido">> @@
  "Entertainment" :> <<"Netflix", "Spotify", "BookMyShow", "Hotstar",
                       "Amazon Prime", "YouTube Premium", "Sony LIV">> @@
  "Health" :> <<"Pharmeasy", "Apollo Pharmacy", "1mg", "Practo", "Netmeds",
                "MediBuddy", "Tata Health">> @@
  "Education" :> <<"Udemy", "Coursera", "Unacademy", "BYJU'S", "Skillshare",
                   "Simplilearn", "upGrad">> @@
  "Transfers" :> <<"Google Pay P2P", "PhonePe P2P", "Paytm P2P",
                   "NEFT Transfer", "IMPS Transfer", "UPI Transfer">> @@
  "Groceries" :> <<"BigBasket", "Blinkit", "Zepto", "JioMart", "DMart",
                   "Swiggy Instamart">> @@
  "Investments" :> <<"Zerodha", "Groww", "CAMS Mutual Fund", "Paytm Money",
                     "Coin by Zerodha">>

\* (lo, hi) in rupees.
amount_ranges ==
  "Food & Dining" :> <<50, 2500>> @@
  "Shopping" :> <<200, 15000>> @@
  "Bills & Utilities" :> <<100, 5000>> @@
  "Travel" :> <<150, 12000>> @@
  "Entertainment" :> <<99, 1500>> @@
  "Health" :> <<50, 8000>> @@
  "Education" :> <<500, 20000>> @@
  "Transfers" :> <<100, 50000>> @@
  "Groceries" :> <<80, 4000>> @@
  "Investments" :> <<500, 100000>>

\* In 1/1000.
failure_rates ==
  "UPI" :> 60 @@ "Credit Card" :> 40 @@ "Debit Card" :> 80 @@
  "Net Banking" :> 100 @@ "Mobile Wallet" :> 50

failure_reasons ==
  "UPI" :> <<"Server Timeout", "Insufficient Balance", "Invalid UPI ID",
             "Bank Server Down", "Transaction Limit Exceeded">> @@
  "Credit Card" :> <<"Card Declined", "Insufficient Limit", "CVV Mismatch",
                     "Card Expired", "3D Auth Failed">> @@
  "Debit Card" :> <<"Insufficient Balance", "Card Blocked", "PIN Incorrect",
                    "Daily Limit Exceeded", "Bank Server Down">> @@
  "Net Banking" :> <<"Session Expired", "OTP Failed", "Bank Server Down",
                     "Authentication Failed", "Timeout">> @@
  "Mobile Wallet" :> <<"Insufficient Balance", "Wallet Limit Exceeded",
                       "KYC Pending", "Server Error", "Invalid PIN">>

platforms == <<"Mobile App", "Web Browser", "POS Terminal", "QR Code">>

platform_weights == <<45, 25, 15, 15>>

\* month -> category -> boost, in 1/10.
seasonal_category_boost ==
  10 :> ("Shopping" :> 16 @@ "Food & Dining" :> 13 @@ "Entertainment" :> 12) @@
  11 :> ("Shopping" :> 18 @@ "Food & Dining" :> 14 @@ "Travel" :> 13 @@
         "Entertainment" :> 13) @@
  12 :> ("Shopping" :> 13 @@ "Travel" :> 14 @@ "Food & Dining" :> 12) @@
  3 :> ("Shopping" :> 12 @@ "Food & Dining" :> 13) @@
  8 :> ("Shopping" :> 14)

\* In 1/10, hours 0..23 at indices 1..24.
hour_weights ==
  <<5, 3, 2, 2, 2, 3, 8, 15, 25, 35, 40, 45, 50, 45, 35, 30, 35, 40, 45, 50,
    45, 35, 25, 15>>

\* range(24)
hours == [h \in 1..Len(hour_weights) |-> h - 1]

\* In 1/10.
persona_multiplier ==
  "Budget" :> 6 @@ "Moderate" :> 10 @@ "High Spender" :> 18 @@ "Impulse" :> 13

\* In rupees.
high_threshold ==
  "Food & Dining" :> 2000 @@ "Shopping" :> 12000 @@
  "Bills & Utilities" :> 4000 @@ "Travel" :> 10000 @@
  "Entertainment" :> 1200 @@ "Health" :> 6000 @@ "Education" :> 15000 @@
  "Transfers" :> 40000 @@ "Groceries" :> 3000 @@ "Investments" :> 80000

generic_fraud_reasons ==
  <<"Multiple Failed Attempts", "Velocity Check Triggered", "Device Mismatch",
    "Location Anomaly", "New Device Login">>

\* s.index(x): the first position of x in s.
Index(s, x) == CHOOSE k \in 1..Len(s) : s[k] = x /\ \A j \in 1..(k - 1) : s[j] # x

-----------------------------------------------------------------------------
(* The calendar. *)

IsLeap(y) == y % 4 = 0 /\ (y % 100 # 0 \/ y % 400 = 0)

\* A variant of the day count: 31 days whatever the month.
DaysInMonthLongest(y, m) == 31

\* calendar.monthrange(year, month)[1]
DaysInMonth(y, m) ==
  IF m = 2 THEN (IF IsLeap(y) THEN 29 ELSE 28)
  ELSE IF m \in {4, 6, 9, 11} THEN 30 ELSE 31

RECURSIVE DaysBeforeMonth(_, _)
DaysBeforeMonth(y, m) ==
  IF m = 1 THEN 0 ELSE DaysBeforeMonth(y, m - 1) + DaysInMonth(y, m - 1)

\* Days from 2024-01-01 to the first day of year y >= 2024.
RECURSIVE DaysBeforeYear(_)
DaysBeforeYear(y) ==
  IF y <= 2024 THEN 0
  ELSE DaysBeforeYear(y - 1) + (IF IsLeap(y - 1) THEN 366 ELSE 365)

\* A variant of the weekday numbering: Sunday is 0, Saturday is 6.
WeekdayFromSunday(dt) ==
  (DaysBeforeYear(dt.year) + DaysBeforeMonth(dt.year, dt.month) + dt.day) % 7

\* datetime.weekday(): Monday is 0; 2024-01-01 was a Monday.
Weekday(dt) ==
  (DaysBeforeYear(dt.year) + DaysBeforeMonth(dt.year, dt.month) + dt.day - 1) % 7

\* The order of datetimes, as a number of seconds from 2024-01-01 00:00:00.
Timestamp(dt) ==
  ((DaysBeforeYear(dt.year) + DaysBeforeMonth(dt.year, dt.month) + dt.day - 1)
     * 24 + dt.hour) * 3600 + dt.minute * 60 + dt.second

-----------------------------------------------------------------------------
(* The state before the script runs. *)

\* The orders in which the argsort of a build can leave rows of equal key:
\* the default kind, quicksort, is not stable.
TieOrders == {"stable", "reversed"}

\* The locals of the loop body before any is assigned.
NoTxn ==
  [ transaction_id |-> None, user_id |-> None, profile |-> None,
    day |-> 0, hour |-> 0, minute |-> 0, second |-> 0,
    transaction_datetime |-> None, is_weekend |-> 0,
    payment_method |-> None, category |-> None, merchant |-> None,
    amount |-> 0, status |-> None, failure_reason |-> None,
    platform |-> None, device_type |-> None, city |-> None,
    processing_time_sec |-> 0, cashback_earned |-> 0, discount_applied |-> 0,
    is_flagged |-> FALSE, fraud_reason |-> None,
    is_refunded |-> FALSE, refund_amount |-> 0 ]

\* Everything but the configuration and the random source.
Fresh ==
  /\ pc = "seed"
  /\ user_profiles = <<>>
  /\ ui = 1
  /\ profile_draft = <<>>
  /\ monthly_txn_counts = <<>>
  /\ remaining = 0
  /\ mi = 0
  /\ cnt = 0
  /\ txn_counter = 0
  /\ step = "idle"
  /\ txn = NoTxn
  /\ draw_log = <<>>
  /\ records = <<>>
  /\ df = <<>>
  /\ user_df = <<>>
  /\ cleaned = <<>>

Init ==
  /\ Fresh
  /\ focus \in DOMAIN focus_sites
  /\ stream = <<>>
  /\ rng = UnseededState
  /\ N \in (IF focus \in list_focuses THEN 0..MaxN
            ELSE IF focus \in DOMAIN focus_multiplier THEN {3}
            ELSE IF focus = "defect" THEN {2} ELSE {1})
  /\ population_size \in (IF focus \in list_focuses THEN 1..MaxUsers ELSE {1})
  /\ monthly_multiplier = (IF focus \in DOMAIN focus_multiplier
                           THEN focus_multiplier[focus]
                           ELSE monthly_multiplier_default)
  /\ method_weights = method_weights_default
  /\ cat_weights \in (IF focus \in weight_focuses THEN ZeroWeightTables
                      ELSE {cat_weights_default})
  /\ table_keys \in (IF focus = "defect" THEN DefectiveTableKeys
                     ELSE {table_keys_default})
  /\ tie_order = None
  /\ run = 1
  /\ first_out = None
  /\ error = None

config ==
  <<focus, N, population_size, monthly_multiplier, method_weights, cat_weights,
    table_keys>>

users_vars == <<user_profiles, ui, profile_draft, user_df>>

sched_vars == <<monthly_txn_counts, remaining>>

loop_vars == <<mi, cnt, txn_counter, step, txn, draw_log, records>>

runs_vars == <<run, first_out, error, cleaned>>

env_vars == <<tie_order, run, first_out, error, cleaned>>

-----------------------------------------------------------------------------
(* Seeding and the population loop. *)

\* random.seed(42)
Seed ==
  /\ pc = "seed"
  /\ rng' = SeededState(rng)
  /\ pc' = "users"
  /\ UNCHANGED <<stream, config, users_vars, sched_vars, loop_vars, df, env_vars>>

\* One random.choices(...) of the loop body: the next field of the user.
SampleProfileField ==
  /\ pc = "users"
  /\ ui <= population_size
  /\ Len(profile_draft) < Len(profile_fields)
  /\ LET f == profile_fields[Len(profile_draft) + 1]
     IN  \E u \in Draws(f.name) :
           /\ profile_draft' = Append(profile_draft, Choices(f.pop, f.w, u))
           /\ Consume(u)
  /\ UNCHANGED <<pc, config, user_profiles, ui, user_df, sched_vars, loop_vars,
                 df, env_vars>>

\* The profile of uid from the seven drawn fields.
MakeProfile(uid, d) ==
  [ user_id |-> uid, city |-> d[1], age_group |-> d[2], gender |-> d[3],
    account_tenure |-> d[4], customer_tier |-> d[5],
    spending_persona |-> d[6], preferred_method |-> d[7] ]

\* user_profiles[uid] = {...}, and the loop moves to the next uid.
StoreProfile ==
  /\ pc = "users"
  /\ ui <= population_size
  /\ Len(profile_draft) = Len(profile_fields)
  /\ user_profiles' = DictSet(user_profiles, MakeProfile(user_ids[ui], profile_draft))
  /\ profile_draft' = <<>>
  /\ ui' = ui + 1
  /\ UNCHANGED <<pc, rng, stream, config, user_df, sched_vars, loop_vars, df, env_vars>>

\* user_df = pd.DataFrame([{'user_id': uid, **profile} for ...])
BuildUserDf ==
  /\ pc = "users"
  /\ ui > population_size
  /\ user_df' = user_profiles
  /\ pc' = "schedule_init"
  /\ UNCHANGED <<rng, stream, config, user_profiles, ui, profile_draft, sched_vars,
                 loop_vars, df, env_vars>>

-----------------------------------------------------------------------------
(* The volume scheduler. *)

\* remaining = N, monthly_txn_counts = {}
InitSchedule ==
  /\ pc = "schedule_init"
  /\ remaining' = N
  /\ monthly_txn_counts' = <<>>
  /\ pc' = "schedule"
  /\ UNCHANGED <<rng, stream, config, users_vars, loop_vars, df, env_vars>>

\* The count of the last month: all that remains (a variant: its own share).
LastMonthOwnShare(rem, n, mult) == MonthCount(n, mult, MonthOf(NumMonths))

LastMonthCount(rem, n, mult) == rem

\* One iteration of `for i, (year, month) in enumerate(all_months)`.
ScheduleMonth ==
  /\ pc = "schedule"
  /\ LET i == Len(monthly_txn_counts)
         count == MonthCount(N, monthly_multiplier, MonthOf(i + 1))
     IN  IF i = NumMonths - 1
         THEN /\ monthly_txn_counts' =
                   Append(monthly_txn_counts,
                          LastMonthCount(remaining, N, monthly_multiplier))
              /\ UNCHANGED remaining
              /\ pc' = "generate"
              /\ mi' = 1
              /\ step' = "loop"
              /\ UNCHANGED <<cnt, txn_counter, txn, draw_log, records>>
         ELSE /\ monthly_txn_counts' = Append(monthly_txn_counts, count)
              /\ remaining' = remaining - count
              /\ UNCHANGED <<pc, loop_vars>>
  /\ UNCHANGED <<rng, stream, config, users_vars, df, env_vars>>

\* The scheduler alone, on any N up to MaxVolN and any of the multiplier
\* tables, from the state a one-user population leaves.
InitVol ==
  /\ pc = "schedule_init"
  /\ focus = "time"
  /\ stream = [k \in 1..Len(profile_fields) |-> site_draws[profile_fields[k].name].pin]
  /\ rng = [seeded |-> TRUE, pos |-> Len(stream)]
  /\ N \in 0..MaxVolN
  /\ population_size = 1
  /\ monthly_multiplier \in MultiplierTables
  /\ method_weights = method_weights_default
  /\ cat_weights = cat_weights_default
  /\ table_keys = table_keys_default
  /\ user_profiles =
       << MakeProfile(UserId(1),
             [k \in 1..Len(profile_fields) |->
                Choices(profile_fields[k].pop, profile_fields[k].w, stream[k])]) >>
  /\ ui = 2
  /\ profile_draft = <<>>
  /\ user_df = user_profiles
  /\ monthly_txn_counts = <<>>
  /\ remaining = 0
  /\ mi = 0
  /\ cnt = 0
  /\ txn_counter = 0
  /\ step = "idle"
  /\ txn = NoTxn
  /\ draw_log = <<>>
  /\ records = <<>>
  /\ df = <<>>
  /\ tie_order = None
  /\ run = 1
  /\ first_out = None
  /\ error = None
  /\ cleaned = <<>>

NextVol == InitSchedule \/ ScheduleMonth

SpecVol == InitVol /\ [][NextVol]_vars

-----------------------------------------------------------------------------
(* 5. The generation loop: one action per statement that draws. *)

\* f"TXN{str(txn_counter).zfill(7)}" (a variant: the counter before its
\* increment).
TxnIdFromZero(k) == <<"TXN">> \o ZFill(Digits(k - 1), 7)

TxnId(k) == <<"TXN">> \o ZFill(Digits(k), 7)

\* What every step of the loop body leaves alone.
BodyFrame ==
  UNCHANGED <<pc, config, users_vars, sched_vars, mi, cnt, txn_counter,
              records, df, env_vars>>

\* The step draws u, the next value of the random source, at `site`.
Draw(site, u) ==
  /\ Consume(u)
  /\ draw_log' = Append(draw_log, site)

NoDraw == UNCHANGED <<rng, stream, draw_log>>

\* for _ in range(count): txn_counter += 1; txn_id = ...
BeginTxn ==
  /\ pc = "generate" /\ step = "loop"
  /\ cnt < monthly_txn_counts[mi]
  /\ txn_counter' = txn_counter + 1
  /\ txn' = [NoTxn EXCEPT !.transaction_id = TxnId(txn_counter + 1)]
  /\ draw_log' = <<>>
  /\ step' = "user"
  /\ UNCHANGED <<pc, rng, stream, config, users_vars, sched_vars, mi, cnt, records,
                 df, env_vars>>

\* for (year, month), count in monthly_txn_counts.items(): the next month.
NextMonth ==
  /\ pc = "generate" /\ step = "loop"
  /\ cnt >= monthly_txn_counts[mi]
  /\ mi < NumMonths
  /\ mi' = mi + 1
  /\ cnt' = 0
  /\ UNCHANGED <<pc, rng, stream, config, users_vars, sched_vars, txn_counter, step,
                 txn, draw_log, records, df, env_vars>>

\* The loop over the months is exhausted.
EndGenerate ==
  /\ pc = "generate" /\ step = "loop"
  /\ cnt >= monthly_txn_counts[mi]
  /\ mi = NumMonths
  /\ pc' = "sort"
  /\ step' = "idle"
  /\ UNCHANGED <<rng, stream, config, users_vars, sched_vars, mi, cnt, txn_counter,
                 txn, draw_log, records, df, env_vars>>

\* user_profiles[user_id] (a variant: the first profile, whatever the key).
LookupFirst(d, key) == d[1]

Lookup(d, key) == d[KeyIndex(d, key)]

\* user_id = random.choice(user_ids); profile = user_profiles[user_id]
PickUser ==
  \E u \in Draws("user_id") :
    /\ pc = "generate" /\ step = "user"
    /\ LET uid == Choice(user_ids, u)
       IN  txn' = [txn EXCEPT !.user_id = uid,
                              !.profile = Lookup(user_profiles, uid)]
    /\ Draw("user_id", u)
    /\ step' = "day"
    /\ BodyFrame

\* day = random.randint(1, days_in_month)
SampleDay ==
  \E u \in Draws("day") :
    /\ pc = "generate" /\ step = "day"
    /\ txn' = [txn EXCEPT !.day =
                  RandInt(1, DaysInMonth(YearOf(mi), MonthOf(mi)), u)]
    /\ Draw("day", u)
    /\ step' = "hour"
    /\ BodyFrame

\* hour = random.choices(range(24), weights=hour_weights, k=1)[0]
SampleHour ==
  \E u \in Draws("hour") :
    /\ pc = "generate" /\ step = "hour"
    /\ txn' = [txn EXCEPT !.hour = Choices(hours, hour_weights, u)]
    /\ Draw("hour", u)
    /\ step' = "minute"
    /\ BodyFrame

\* minute = random.randint(0, 59)
SampleMinute ==
  \E u \in Draws("minute") :
    /\ pc = "generate" /\ step = "minute"
    /\ txn' = [txn EXCEPT !.minute = RandInt(0, 59, u)]
    /\ Draw("minute", u)
    /\ step' = "second"
    /\ BodyFrame

\* second = random.randint(0, 59); txn_datetime = datetime(...);
\* is_weekend = 1 if txn_datetime.weekday() >= 5 else 0
SampleSecond ==
  \E u \in Draws("second") :
    /\ pc = "generate" /\ step = "second"
    /\ LET sec == RandInt(0, 59, u)
           dt == [year |-> YearOf(mi), month |-> MonthOf(mi), day |-> txn.day,
                  hour |-> txn.hour, minute |-> txn.minute, second |-> sec]
       IN  txn' = [txn EXCEPT !.second = sec,
                              !.transaction_datetime = dt,
                              !.is_weekend = IF Weekday(dt) >= 5 THEN 1 ELSE 0]
    /\ Draw("second", u)
    /\ step' = "method"
    /\ BodyFrame

\* user_method_weights = list(method_weights);
\* user_method_weights[pref_idx] *= 2.5        (result in 1/1000)
user_method_weights(base, preferred) ==
  [k \in 1..Len(base) |->
     IF k = Index(payment_methods, preferred) THEN base[k] * 25 ELSE base[k] * 10]

\* A variant of the method draw that also writes the drawn method into the
\* user's profile: profile['preferred_method'] = method.
SampleMethodIntoProfile ==
  \E u \in Draws("method") :
    /\ pc = "generate" /\ step = "method"
    /\ LET method == Choices(payment_methods,
                             user_method_weights(method_weights,
                                                 txn.profile.preferred_method),
                             u)
           profile == [txn.profile EXCEPT !.preferred_method = method]
       IN  /\ txn' = [txn EXCEPT !.payment_method = method, !.profile = profile]
           /\ user_profiles' = DictSet(user_profiles, profile)
    /\ Draw("method", u)
    /\ step' = "category"
    /\ UNCHANGED <<pc, config, ui, profile_draft, user_df, sched_vars, mi, cnt,
                   txn_counter, records, df, env_vars>>

\* method = random.choices(payment_methods, weights=user_method_weights)[0]
SampleMethod ==
  \E u \in Draws("method") :
    /\ pc = "generate" /\ step = "method"
    /\ txn' = [txn EXCEPT !.payment_method =
                  Choices(payment_methods,
                          user_method_weights(method_weights,
                                              txn.profile.preferred_method),
                          u)]
    /\ Draw("method", u)
    /\ step' = "category"
    /\ BodyFrame

\* The seasonal boost of category c in `month`, in 1/10 (10 when it has none).
SeasonalBoost(month, c) ==
  IF month \in DOMAIN seasonal_category_boost
     /\ c \in DOMAIN seasonal_category_boost[month]
  THEN seasonal_category_boost[month][c]
  ELSE 10

weekend_categories == {"Food & Dining", "Entertainment", "Shopping"}

\* A variant of the adjustment in which the boosts do not compose: where
\* both apply, only the larger one is used.
adjusted_cat_weights_larger(base, month, is_weekend) ==
  [k \in 1..Len(base) |->
     base[k] * 10
             * Max(SeasonalBoost(month, categories[k]),
                   IF is_weekend = 1 /\ categories[k] \in weekend_categories
                   THEN 12 ELSE 10)]

\* adjusted_cat_weights = list(cat_weights), times the seasonal boosts of the
\* month, times 1.2 on a weekend for the weekend categories (in 1/10000).
adjusted_cat_weights(base, month, is_weekend) ==
  [k \in 1..Len(base) |->
     base[k] * SeasonalBoost(month, categories[k])
             * (IF is_weekend = 1 /\ categories[k] \in weekend_categories
                THEN 12 ELSE 10)]

\* A variant of the category draw that boosts the shared table itself,
\* adjusted_cat_weights = cat_weights without the copy (the table stays in
\* 1/100: each boost is rounded into it).
SampleCategoryInPlace ==
  \E u \in Draws("category") :
    /\ pc = "generate" /\ step = "category"
    /\ LET w == adjusted_cat_weights(cat_weights, MonthOf(mi), txn.is_weekend)
       IN  /\ txn' = [txn EXCEPT !.category = Choices(categories, w, u)]
           /\ cat_weights' = [k \in 1..Len(w) |-> RoundDiv(w[k], 100)]
    /\ Draw("category", u)
    /\ step' = "merchant"
    /\ UNCHANGED <<pc, focus, N, population_size, monthly_multiplier,
                   method_weights, table_keys, users_vars, sched_vars, mi, cnt,
                   txn_counter, records, df, env_vars>>

\* category = random.choices(categories, weights=adjusted_cat_weights)[0]
SampleCategory ==
  \E u \in Draws("category") :
    /\ pc = "generate" /\ step = "category"
    /\ txn' = [txn EXCEPT !.category =
                  Choices(categories,
                          adjusted_cat_weights(cat_weights, MonthOf(mi),
                                               txn.is_weekend),
                          u)]
    /\ Draw("category", u)
    /\ step' = "merchant"
    /\ BodyFrame

\* An uncaught exception e ends the script where it is raised.
Raise(e) ==
  /\ pc' = "error"
  /\ error' = e
  /\ UNCHANGED <<rng, stream, config, users_vars, sched_vars, loop_vars, df,
                 tie_order, run, first_out, cleaned>>

\* merchant = random.choice(merchants[category]): the lookup raises KeyError
\* for a category that is not a key, before anything is drawn.
SampleMerchant ==
  \E u \in Draws("merchant") :
    /\ pc = "generate" /\ step = "merchant"
    /\ IF txn.category \in table_keys.merchants
       THEN /\ txn' = [txn EXCEPT !.merchant = Choice(merchants[txn.category], u)]
            /\ Draw("merchant", u)
            /\ step' = "amount"
            /\ BodyFrame
       ELSE Raise("KeyError")

\* max(lo, min(amount, hi * 2)), all in paise (a variant: no floor).
ClampNoFloor(amount, lo, hi) == Min(amount, hi * 2)

Clamp(amount, lo, hi) == Max(lo, Min(amount, hi * 2))

\* base_amount = random.uniform(lo, hi);
\* amount = round(base_amount * persona_multiplier[persona], 2), clamped.
Amount(category, persona, u) ==
  LET lo == amount_ranges[category][1]
      hi == amount_ranges[category][2]
      base_amount == Uniform(lo, hi, 100, u)
  IN  Clamp(RoundDiv(base_amount * persona_multiplier[persona], 10),
            lo * 100, hi * 100)

SampleAmount ==
  \E u \in Draws("amount") :
    /\ pc = "generate" /\ step = "amount"
    /\ IF txn.category \in table_keys.amount_ranges
       THEN /\ txn' = [txn EXCEPT !.amount =
                         Amount(txn.category, txn.profile.spending_persona, u)]
            /\ Draw("amount", u)
            /\ step' = "failed"
            /\ BodyFrame
       ELSE Raise("KeyError")

\* fail_rate = failure_rates[method] * peak_failure_boost, in 1/10000.
fail_rate(method, hour) ==
  failure_rates[method] * (IF hour \in {12, 13, 18, 19, 20} THEN 14 ELSE 10)

\* is_failed = random.random() < fail_rate; if is_failed: status = 'Failed'
RollFailed ==
  \E u \in Draws("is_failed") :
    /\ pc = "generate" /\ step = "failed"
    /\ IF Below(u, fail_rate(txn.payment_method, txn.hour), 10000)
       THEN /\ txn' = [txn EXCEPT !.status = "Failed"]
            /\ step' = "failure_reason"
       ELSE /\ UNCHANGED txn
            /\ step' = "pending"
    /\ Draw("is_failed", u)
    /\ BodyFrame

\* A variant of the reason draw that reads the list of the first method
\* whatever the transaction's method.
PickFailureReasonFirstList ==
  \E u \in Draws("failure_reason") :
    /\ pc = "generate" /\ step = "failure_reason"
    /\ txn' = [txn EXCEPT !.failure_reason =
                  Choice(failure_reasons[payment_methods[1]], u)]
    /\ Draw("failure_reason", u)
    /\ step' = "platform"
    /\ BodyFrame

\* reason = random.choice(failure_reasons[method])
PickFailureReason ==
  \E u \in Draws("failure_reason") :
    /\ pc = "generate" /\ step = "failure_reason"
    /\ txn' = [txn EXCEPT !.failure_reason =
                  Choice(failure_reasons[txn.payment_method], u)]
    /\ Draw("failure_reason", u)
    /\ step' = "platform"
    /\ BodyFrame

\* The reason of a transaction that did not fail (a variant: always None).
NonFailedReasonNone(pending) == None

NonFailedReason(pending) == IF pending THEN "Processing" ELSE None

\* if random.random() < 0.03: status = 'Pending'; reason = 'Processing'
\* else: status = 'Success'; reason = None
RollPending ==
  \E u \in Draws("is_pending") :
    /\ pc = "generate" /\ step = "pending"
    /\ LET pending == Below(u, 3, 100)
       IN  txn' = [txn EXCEPT !.status = IF pending THEN "Pending" ELSE "Success",
                              !.failure_reason = NonFailedReason(pending)]
    /\ Draw("is_pending", u)
    /\ step' = "platform"
    /\ BodyFrame

\* The block that follows the platform block, the refund block and the
\* device block in the loop body (a variant: device right after platform).
body_order_device_first ==
  [platform |-> "device", device |-> "processing_time", refund |-> "append"]

body_order ==
  [platform |-> "processing_time", refund |-> "device", device |-> "append"]

\* platform = random.choices(platforms, weights=platform_weights, k=1)[0];
\* city = profile['city']
SamplePlatform ==
  \E u \in Draws("platform") :
    /\ pc = "generate" /\ step = "platform"
    /\ txn' = [txn EXCEPT !.platform = Choices(platforms, platform_weights, u),
                          !.city = txn.profile.city]
    /\ Draw("platform", u)
    /\ step' = body_order.platform
    /\ BodyFrame

\* A variant of the processing time that uses the Success range for every
\* status.
ProcessingTimeOneRange(status, u) == Uniform(5, 30, 10, u)

\* round(random.uniform(a, b), 2) by status, in 1/100 s; bounds in 1/10 s.
ProcessingTime(status, u) ==
  IF status = "Success" THEN Uniform(5, 30, 10, u)
  ELSE IF status = "Failed" THEN Uniform(20, 150, 10, u)
  ELSE Uniform(50, 300, 10, u)

SampleProcessingTime ==
  \E u \in Draws("processing_time") :
    /\ pc = "generate" /\ step = "processing_time"
    /\ txn' = [txn EXCEPT !.processing_time_sec = ProcessingTime(txn.status, u)]
    /\ Draw("processing_time", u)
    /\ step' = "cashback"
    /\ BodyFrame

\* Whether the cashback/discount block runs (a variant: for every status).
RewardsAlways(status) == TRUE

RewardsApply(status) == status = "Success"

\* cashback = 0.0; discount_applied = 0.0; if status == 'Success':
\*   if random.random() < cashback_chance: ...
RollCashback ==
  \E u \in Draws("cashback_roll") :
    /\ pc = "generate" /\ step = "cashback"
    /\ IF RewardsApply(txn.status)
       THEN /\ Draw("cashback_roll", u)
            /\ step' = IF Below(u,
                                IF txn.payment_method \in {"Credit Card", "Mobile Wallet"}
                                THEN 25 ELSE 12,
                                100)
                       THEN "cashback_amount" ELSE "discount"
       ELSE /\ NoDraw
            /\ step' = "fraud_high"
    /\ txn' = [txn EXCEPT !.cashback_earned = 0, !.discount_applied = 0]
    /\ BodyFrame

\* A variant of the cashback with a higher rate:
\* round(amount * random.uniform(0.10, 0.40), 2).
SampleCashbackHigher ==
  \E u \in Draws("cashback_amount") :
    /\ pc = "generate" /\ step = "cashback_amount"
    /\ txn' = [txn EXCEPT !.cashback_earned =
                  RoundDiv(txn.amount * Uniform(10, 40, 10, u), 1000)]
    /\ Draw("cashback_amount", u)
    /\ step' = "discount"
    /\ BodyFrame

\* cashback = round(amount * random.uniform(0.01, 0.10), 2); rate in 1/1000.
SampleCashback ==
  \E u \in Draws("cashback_amount") :
    /\ pc = "generate" /\ step = "cashback_amount"
    /\ txn' = [txn EXCEPT !.cashback_earned =
                  RoundDiv(txn.amount * Uniform(1, 10, 10, u), 1000)]
    /\ Draw("cashback_amount", u)
    /\ step' = "discount"
    /\ BodyFrame

\* if category in [...] and random.random() < 0.30: the right operand is
\* evaluated, and draws, only for the three categories.
RollDiscount ==
  \E u \in Draws("discount_roll") :
    /\ pc = "generate" /\ step = "discount"
    /\ IF txn.category \in {"Shopping", "Food & Dining", "Groceries"}
       THEN /\ Draw("discount_roll", u)
            /\ step' = IF Below(u, 30, 100)
                       THEN "discount_amount" ELSE "fraud_high"
       ELSE /\ NoDraw
            /\ step' = "fraud_high"
    /\ UNCHANGED txn
    /\ BodyFrame

\* discount_applied = round(amount * random.uniform(0.05, 0.20), 2)
SampleDiscount ==
  \E u \in Draws("discount_amount") :
    /\ pc = "generate" /\ step = "discount_amount"
    /\ txn' = [txn EXCEPT !.discount_applied =
                  RoundDiv(txn.amount * Uniform(5, 20, 10, u), 1000)]
    /\ Draw("discount_amount", u)
    /\ step' = "fraud_high"
    /\ BodyFrame

\* high_threshold.get(category, 50000), in rupees.
HighThreshold(category) ==
  IF category \in DOMAIN high_threshold THEN high_threshold[category] ELSE 50000

\* is_flagged = False; fraud_reason = None;
\* if amount > high_threshold...: if random.random() < 0.15: flag
FraudHigh ==
  \E u \in Draws("fraud_high") :
    /\ pc = "generate" /\ step = "fraud_high"
    /\ IF txn.amount > HighThreshold(txn.category) * 100
       THEN /\ Draw("fraud_high", u)
            /\ IF Below(u, 15, 100)
               THEN txn' = [txn EXCEPT !.is_flagged = TRUE,
                                       !.fraud_reason = "Unusually High Amount"]
               ELSE txn' = [txn EXCEPT !.is_flagged = FALSE, !.fraud_reason = None]
       ELSE /\ NoDraw
            /\ txn' = [txn EXCEPT !.is_flagged = FALSE, !.fraud_reason = None]
    /\ step' = "fraud_night"
    /\ BodyFrame

\* A variant of the late-night condition that looks at the hour alone.
NightRuleHourOnly(t) == t.hour \in {0, 1, 2, 3, 4}

\* Whether the late-night rule is evaluated: whatever is_flagged holds.
NightRuleApplies(t) == t.hour \in {0, 1, 2, 3, 4} /\ t.amount > 5000 * 100

\* if hour in [0, 1, 2, 3, 4] and amount > 5000:
\*   if random.random() < 0.20: flag
FraudNight ==
  \E u \in Draws("fraud_night") :
    /\ pc = "generate" /\ step = "fraud_night"
    /\ IF NightRuleApplies(txn)
       THEN /\ Draw("fraud_night", u)
            /\ IF Below(u, 20, 100)
               THEN txn' = [txn EXCEPT !.is_flagged = TRUE,
                                       !.fraud_reason = "Suspicious Late Night Transaction"]
               ELSE UNCHANGED txn
       ELSE /\ NoDraw
            /\ UNCHANGED txn
    /\ step' = "fraud_generic"
    /\ BodyFrame

\* Whether the generic rule rolls (a variant: also when already flagged).
GenericRuleAlways(t) == TRUE

GenericRuleApplies(t) == ~t.is_flagged

\* if not is_flagged and random.random() < 0.008: is_flagged = True
FraudGeneric ==
  \E u \in Draws("fraud_generic") :
    /\ pc = "generate" /\ step = "fraud_generic"
    /\ IF GenericRuleApplies(txn)
       THEN /\ Draw("fraud_generic", u)
            /\ IF Below(u, 8, 1000)
               THEN /\ txn' = [txn EXCEPT !.is_flagged = TRUE]
                    /\ step' = "fraud_generic_reason"
               ELSE /\ UNCHANGED txn
                    /\ step' = "refund"
       ELSE /\ NoDraw
            /\ UNCHANGED txn
            /\ step' = "refund"
    /\ BodyFrame

\* fraud_reason = random.choice([...])
PickGenericReason ==
  \E u \in Draws("fraud_generic_reason") :
    /\ pc = "generate" /\ step = "fraud_generic_reason"
    /\ txn' = [txn EXCEPT !.fraud_reason = Choice(generic_fraud_reasons, u)]
    /\ Draw("fraud_generic_reason", u)
    /\ step' = "refund"
    /\ BodyFrame

refund_categories == {"Shopping", "Travel", "Food & Dining", "Entertainment"}

\* Whether a refund is rolled for (a variant: whatever the status).
RefundAnyStatus(t) == t.category \in refund_categories

RefundEligible(t) == t.status = "Success" /\ t.category \in refund_categories

\* is_refunded = False; refund_amount = 0.0;
\* if status == 'Success' and category in [...]: if random.random() < 0.04
RollRefund ==
  \E u \in Draws("refund_roll") :
    /\ pc = "generate" /\ step = "refund"
    /\ IF RefundEligible(txn)
       THEN /\ Draw("refund_roll", u)
            /\ IF Below(u, 4, 100)
               THEN /\ txn' = [txn EXCEPT !.is_refunded = TRUE, !.refund_amount = 0]
                    /\ step' = "refund_full"
               ELSE /\ txn' = [txn EXCEPT !.is_refunded = FALSE, !.refund_amount = 0]
                    /\ step' = body_order.refund
       ELSE /\ NoDraw
            /\ txn' = [txn EXCEPT !.is_refunded = FALSE, !.refund_amount = 0]
            /\ step' = body_order.refund
    /\ BodyFrame

\* if random.random() < 0.6: refund_amount = amount
RollRefundFull ==
  \E u \in Draws("refund_full") :
    /\ pc = "generate" /\ step = "refund_full"
    /\ IF Below(u, 6, 10)
       THEN /\ txn' = [txn EXCEPT !.refund_amount = txn.amount]
            /\ step' = body_order.refund
       ELSE /\ UNCHANGED txn
            /\ step' = "refund_partial"
    /\ Draw("refund_full", u)
    /\ BodyFrame

\* round(amount * random.uniform(0.3, 0.8), 2); the rate in 1/100
\* (a variant: a rate of 0.3 to 1.8).
PartialRefundOver(amount, u) == RoundDiv(amount * Uniform(3, 18, 10, u), 100)

PartialRefund(amount, u) == RoundDiv(amount * Uniform(3, 8, 10, u), 100)

\* else: refund_amount = round(amount * random.uniform(0.3, 0.8), 2)
SampleRefundPartial ==
  \E u \in Draws("refund_amount") :
    /\ pc = "generate" /\ step = "refund_partial"
    /\ txn' = [txn EXCEPT !.refund_amount = PartialRefund(txn.amount, u)]
    /\ Draw("refund_amount", u)
    /\ step' = body_order.refund
    /\ BodyFrame

\* The devices a platform draws from, with their weights.
mobile_devices == <<"Android", "iOS">>

mobile_device_weights == <<72, 28>>

web_devices == <<"Windows", "Mac", "Linux">>

web_device_weights == <<65, 25, 10>>

\* The if/elif chain on platform (a variant: QR Code falls to the web branch).
DeviceTypeQrAsWeb(platform, u) ==
  IF platform = "Mobile App" THEN Choices(mobile_devices, mobile_device_weights, u)
  ELSE IF platform = "POS Terminal" THEN "POS"
  ELSE Choices(web_devices, web_device_weights, u)

DeviceType(platform, u) ==
  IF platform = "Mobile App" THEN Choices(mobile_devices, mobile_device_weights, u)
  ELSE IF platform = "Web Browser" THEN Choices(web_devices, web_device_weights, u)
  ELSE IF platform = "POS Terminal" THEN "POS"
  ELSE Choices(mobile_devices, mobile_device_weights, u)

SampleDevice ==
  \E u \in Draws("device_type") :
    /\ pc = "generate" /\ step = "device"
    /\ txn' = [txn EXCEPT !.device_type = DeviceType(txn.platform, u)]
    /\ IF txn.platform = "POS Terminal" THEN NoDraw ELSE Draw("device_type", u)
    /\ step' = body_order.device
    /\ BodyFrame

\* The columns of a row of records.
columns ==
  { "transaction_id", "user_id", "transaction_datetime", "payment_method",
    "category", "merchant", "amount", "status", "failure_reason", "platform",
    "device_type", "city", "processing_time_sec", "is_weekend",
    "cashback_earned", "discount_applied", "is_flagged", "fraud_reason",
    "is_refunded", "refund_amount" }

Row(t) == [c \in columns |-> t[c]]

\* records.append({...}), and the inner loop goes round.
AppendRecord ==
  /\ pc = "generate" /\ step = "append"
  /\ records' = Append(records, Row(txn))
  /\ cnt' = cnt + 1
  /\ step' = "loop"
  /\ UNCHANGED <<pc, rng, stream, config, users_vars, sched_vars, mi, txn_counter,
                 txn, draw_log, df, env_vars>>

-----------------------------------------------------------------------------
(* 6. The sort and the outputs. *)

\* s with row r put in after its first k rows.
InsertAt(s, k, r) == SubSeq(s, 1, k) \o <<r>> \o SubSeq(s, k + 1, Len(s))

\* The sorted rows s with r added: after the rows of equal datetime when
\* ties keep their order, before them otherwise.
SortedInsert(s, r, ties) ==
  LET key == Timestamp(r.transaction_datetime)
      before == {j \in 1..Len(s) :
                   IF ties = "stable"
                   THEN Timestamp(s[j].transaction_datetime) <= key
                   ELSE Timestamp(s[j].transaction_datetime) < key}
  IN  InsertAt(s, Cardinality(before), r)

\* df.sort_values('transaction_datetime').reset_index(drop=True)
RECURSIVE SortValues(_, _)
SortValues(rows, ties) ==
  IF rows = <<>> THEN <<>>
  ELSE CHOOSE out \in
         {SortedInsert(s, rows[Len(rows)], ties) :
            s \in {SortValues(SubSeq(rows, 1, Len(rows) - 1), ties)}} : TRUE

\* df = pd.DataFrame(records); df = df.sort_values(...); the tables are written.
\* The order of equal keys is a property of the build: it is fixed by the
\* first sort and the same in every later one.
Sort ==
  /\ pc = "sort"
  /\ \E ties \in (IF tie_order = None THEN TieOrders ELSE {tie_order}) :
       /\ tie_order' = ties
       /\ df' = SortValues(records, ties)
  /\ pc' = "done"
  /\ UNCHANGED <<rng, stream, config, users_vars, sched_vars, loop_vars, runs_vars>>

\* The script is run again, as a new process, with the same configuration.
Restart ==
  /\ pc = "done"
  /\ run = 1
  /\ run' = 2
  /\ first_out' = [transactions |-> df, users |-> user_df]
  /\ error' = None
  /\ rng' = UnseededState
  /\ pc' = "seed"
  /\ user_profiles' = <<>>
  /\ ui' = 1
  /\ profile_draft' = <<>>
  /\ monthly_txn_counts' = <<>>
  /\ remaining' = 0
  /\ mi' = 0
  /\ cnt' = 0
  /\ txn_counter' = 0
  /\ step' = "idle"
  /\ txn' = NoTxn
  /\ draw_log' = <<>>
  /\ records' = <<>>
  /\ df' = <<>>
  /\ user_df' = <<>>
  /\ UNCHANGED <<stream, config, tie_order, cleaned>>

-----------------------------------------------------------------------------
(* The specifications. *)

Next ==
  \/ Seed
  \/ SampleProfileField
  \/ StoreProfile
  \/ BuildUserDf
  \/ InitSchedule
  \/ ScheduleMonth
  \/ BeginTxn
  \/ NextMonth
  \/ EndGenerate
  \/ PickUser
  \/ SampleDay
  \/ SampleHour
  \/ SampleMinute
  \/ SampleSecond
  \/ SampleMethod
  \/ SampleCategory
  \/ SampleMerchant
  \/ SampleAmount
  \/ RollFailed
  \/ PickFailureReason
  \/ RollPending
  \/ SamplePlatform
  \/ SampleProcessingTime
  \/ RollCashback
  \/ SampleCashback
  \/ RollDiscount
  \/ SampleDiscount
  \/ FraudHigh
  \/ FraudNight
  \/ FraudGeneric
  \/ PickGenericReason
  \/ RollRefund
  \/ RollRefundFull
  \/ SampleRefundPartial
  \/ SampleDevice
  \/ AppendRecord
  \/ Sort

\* One execution of the script.
Spec == Init /\ [][Next]_vars

\* Two executions in a row with the same seed and configuration.
NextTwoRuns == Next \/ Restart

SpecTwoRuns == Init /\ [][NextTwoRuns]_vars

-----------------------------------------------------------------------------
(* The cleaning stage: data_pipeline.py on the generator's CSV file. *)

\* pandas' missing value.
NaN == "<NaN>"

\* The cell texts read_csv takes for a missing value.
na_values ==
  {"", "#N/A", "#N/A N/A", "#NA", "-1.#IND", "-1.#QNAN", "-NaN", "-nan",
   "1.#IND", "1.#QNAN", "<NA>", "N/A", "NA", "NULL", "NaN", "None", "n/a",
   "nan", "null"}

\* to_csv of a text cell: None is written as the empty cell.
WriteText(v) == IF v = None THEN "" ELSE v

\* read_csv of a text cell.
ReadText(cell) == IF cell \in na_values THEN NaN ELSE cell

\* to_csv of a datetime: "YYYY-MM-DD HH:MM:SS", as its six digit groups.
WriteDatetime(dt) ==
  << ZFill(Digits(dt.year), 4), ZFill(Digits(dt.month), 2),
     ZFill(Digits(dt.day), 2), ZFill(Digits(dt.hour), 2),
     ZFill(Digits(dt.minute), 2), ZFill(Digits(dt.second), 2) >>

\* int(digits)
RECURSIVE ParseInt(_)
ParseInt(d) ==
  IF d = <<>> THEN 0 ELSE ParseInt(SubSeq(d, 1, Len(d) - 1)) * 10 + d[Len(d)]

\* pd.to_datetime of the cell.
ReadDatetime(cell) ==
  [ year |-> ParseInt(cell[1]), month |-> ParseInt(cell[2]),
    day |-> ParseInt(cell[3]), hour |-> ParseInt(cell[4]),
    minute |-> ParseInt(cell[5]), second |-> ParseInt(cell[6]) ]

\* to_csv of a float of two decimals held in 1/100: the integer part and
\* the decimals, as repr prints them.
WriteNumber(x) == <<Digits(x \div 100), ZFill(Digits(x % 100), 2)>>

\* pd.to_numeric of the cell, in 1/100.
ReadNumber(cell) == ParseInt(cell[1]) * 100 + ParseInt(cell[2])

\* df.to_csv(txn_path, index=False): the cells of one row that the cleaning
\* stage's followed columns are computed from.
WriteRow(r) ==
  [ transaction_id |-> r.transaction_id,
    transaction_datetime |-> WriteDatetime(r.transaction_datetime),
    amount |-> WriteNumber(r.amount),
    status |-> WriteText(r.status),
    failure_reason |-> WriteText(r.failure_reason),
    cashback_earned |-> WriteNumber(r.cashback_earned),
    discount_applied |-> WriteNumber(r.discount_applied),
    fraud_reason |-> WriteText(r.fraud_reason) ]

\* net_amount = (amount - discount_applied - cashback_earned).clip(lower=0)
NetAmount(amount, discount, cashback) == Max(0, amount - discount - cashback)

\* (df['day'] >= 26).astype(int)
IsMonthEnd(day) == IF day >= 26 THEN 1 ELSE 0

\* (df['day'] <= 5).astype(int)
IsMonthStart(day) == IF day <= 5 THEN 1 ELSE 0

\* The row of the cleaned table made from one row of the CSV file, in the
\* columns followed here: types fixed, nulls filled, time and amount features.
\* No text of the tables has blanks at its ends: str.strip() leaves it as is.
CleanRow(c) ==
  LET dt == ReadDatetime(c.transaction_datetime)
      amount == ReadNumber(c.amount)
      cashback == ReadNumber(c.cashback_earned)
      discount == ReadNumber(c.discount_applied)
      failure == ReadText(c.failure_reason)
      fraud == ReadText(c.fraud_reason)
  IN  [ transaction_id |-> c.transaction_id,
        transaction_datetime |-> dt,
        status |-> ReadText(c.status),
        failure_reason |-> IF failure = NaN THEN "None" ELSE failure,
        fraud_reason |-> IF fraud = NaN THEN "None" ELSE fraud,
        year |-> dt.year, month |-> dt.month, day |-> dt.day, hour |-> dt.hour,
        is_month_end |-> IsMonthEnd(dt.day),
        is_month_start |-> IsMonthStart(dt.day),
        is_festival_season |-> IF dt.month \in {10, 11} THEN 1 ELSE 0,
        amount |-> amount,
        cashback_earned |-> cashback,
        discount_applied |-> discount,
        net_amount |-> NetAmount(amount, discount, cashback),
        total_savings |-> discount + cashback ]

\* The cleaning stage runs on the file the generator has written.
Clean ==
  /\ pc = "done"
  /\ cleaned' = [i \in 1..Len(df) |-> CleanRow(WriteRow(df[i]))]
  /\ pc' = "cleaned"
  /\ UNCHANGED <<rng, stream, config, users_vars, sched_vars, loop_vars, df,
                 tie_order, run, first_out, error>>

\* The generator, then the cleaning stage.
NextPipeline == Next \/ Clean

SpecPipeline == Init /\ [][NextPipeline]_vars

-----------------------------------------------------------------------------
(* The properties. *)

\* The user table's rows of the given user_id.
UsersWithId(uid) == {j \in 1..Len(user_df) : user_df[j].user_id = uid}

\* C1: when the scheduler has run over the 24 months, the per-month counts
\* sum to exactly N, for every N and every multiplier table; while it runs,
\* the counts given so far and the remainder add up to N.
VolumeConservation ==
  /\ pc = "schedule" => SumSeq(monthly_txn_counts) + remaining = N
  /\ Len(monthly_txn_counts) = NumMonths => SumSeq(monthly_txn_counts) = N

\* A completed schedule whose last month took more than its own share, with
\* other months holding transactions too.
VolumeConservationWitness ==
  /\ Len(monthly_txn_counts) = NumMonths
  /\ N > NumMonths
  /\ monthly_txn_counts[1] > 0
  /\ monthly_txn_counts[NumMonths] >
       MonthCountExact(N, monthly_multiplier, MonthOf(NumMonths))

\* C2: for every generated transaction, failure_reason is present (not
\* None) if and only if status is Failed; a Pending or Success transaction
\* has no failure_reason.
FailureReasonIffFailed ==
  \A i \in 1..Len(records) :
    records[i].failure_reason # None <=> records[i].status = "Failed"

\* C3: first true rule wins: once a fraud rule has flagged the transaction,
\* the later rules draw nothing for it and leave is_flagged and fraud_reason
\* as they are.
FirstTrueRuleWins ==
  [][ (pc = "generate" /\ step \in {"fraud_night", "fraud_generic"}
         /\ txn.is_flagged)
        => /\ draw_log' = draw_log
           /\ txn'.is_flagged = txn.is_flagged
           /\ txn'.fraud_reason = txn.fraud_reason ]_vars

\* C4: for every generated transaction 0 <= refund_amount <= amount, with
\* refund_amount > 0 when is_refunded and refund_amount = 0 when not.
RefundBounds ==
  \A i \in 1..Len(records) :
    /\ 0 <= records[i].refund_amount
    /\ records[i].refund_amount <= records[i].amount
    /\ records[i].is_refunded => records[i].refund_amount > 0
    /\ ~records[i].is_refunded => records[i].refund_amount = 0

\* A partial refund at the top of its range has been recorded.
RefundBoundsWitness ==
  \E i \in 1..Len(records) :
    /\ records[i].is_refunded
    /\ records[i].refund_amount < records[i].amount
    /\ records[i].refund_amount * 100 > records[i].amount * 75

\* C5: a transaction is refunded only if its status is Success and its
\* category is Shopping, Travel, Food & Dining or Entertainment.
RefundOnlySuccessEligible ==
  \A i \in 1..Len(records) :
    records[i].is_refunded =>
      /\ records[i].status = "Success"
      /\ records[i].category \in
           {"Shopping", "Travel", "Food & Dining", "Entertainment"}

\* A Travel transaction has been refunded in full.
RefundOnlySuccessEligibleWitness ==
  \E i \in 1..Len(records) :
    /\ records[i].is_refunded
    /\ records[i].category = "Travel"
    /\ records[i].refund_amount = records[i].amount

\* C6: a transaction whose status is not Success has cashback_earned = 0 and
\* discount_applied = 0, and neither value is ever negative.
NoRewardsUnlessSuccess ==
  \A i \in 1..Len(records) :
    /\ records[i].cashback_earned >= 0
    /\ records[i].discount_applied >= 0
    /\ records[i].status # "Success" =>
         /\ records[i].cashback_earned = 0
         /\ records[i].discount_applied = 0

\* A Pending transaction of a cashback method and a discount category has
\* been recorded.
NoRewardsUnlessSuccessWitness ==
  \E i \in 1..Len(records) :
    /\ records[i].status = "Pending"
    /\ records[i].payment_method = "Credit Card"
    /\ records[i].category = "Shopping"

\* C7: for every generated transaction, lo <= amount <= 2 * hi for the
\* (lo, hi) of its category, whatever the persona multiplier.
AmountBounds ==
  \A i \in 1..Len(records) :
    LET range == amount_ranges[records[i].category]
    IN  /\ range[1] * 100 <= records[i].amount
        /\ records[i].amount <= 2 * range[2] * 100

\* The floor acted: a Budget user's transaction was recorded at exactly lo.
AmountBoundsWitness ==
  \E i \in 1..Len(records) :
    /\ records[i].amount = amount_ranges[records[i].category][1] * 100
    /\ \E j \in UsersWithId(records[i].user_id) :
         user_df[j].spending_persona = "Budget"

\* C8: every generated transaction's user_id is the id of exactly one row
\* of the user table, and the transaction's city is that user's city.
ReferentialIntegrity ==
  \A i \in 1..Len(records) :
    /\ Cardinality(UsersWithId(records[i].user_id)) = 1
    /\ \A j \in UsersWithId(records[i].user_id) :
         user_df[j].city = records[i].city

\* Transactions of two users who live in different cities were written.
ReferentialIntegrityWitness ==
  /\ pc = "done"
  /\ \E i, k \in 1..Len(df) :
       /\ df[i].user_id # df[k].user_id
       /\ df[i].city # df[k].city

\* C9: Mobile App and QR Code transactions have device_type Android or iOS,
\* Web Browser ones Windows, Mac or Linux, POS Terminal ones POS.
DevicePlatformCoupling ==
  \A i \in 1..Len(records) :
    /\ records[i].platform \in {"Mobile App", "QR Code"} =>
         records[i].device_type \in {"Android", "iOS"}
    /\ records[i].platform = "Web Browser" =>
         records[i].device_type \in {"Windows", "Mac", "Linux"}
    /\ records[i].platform = "POS Terminal" => records[i].device_type = "POS"

\* A QR Code transaction made on iOS has been recorded.
DevicePlatformCouplingWitness ==
  \E i \in 1..Len(records) :
    /\ records[i].platform = "QR Code"
    /\ records[i].device_type = "iOS"

\* C10: a second run with the same seed and the same configuration writes
\* the user table and the transaction table of the first run, row for row
\* and in the same order.
Determinism ==
  (run = 2 /\ pc = "done") =>
    /\ user_df = first_out.users
    /\ df = first_out.transactions

\* A second run has ended whose table holds rows that were generated out of
\* date order and rows of equal datetime.
DeterminismWitness ==
  /\ run = 2
  /\ pc = "done"
  /\ \E i, k \in 1..Len(records) :
       /\ i < k
       /\ Timestamp(records[i].transaction_datetime)
            > Timestamp(records[k].transaction_datetime)
  /\ \E i, k \in 1..Len(df) :
       /\ i # k
       /\ df[i].transaction_datetime = df[k].transaction_datetime

\* The draw sites of one transaction in the order of the loop body.
draw_sites ==
  << "user_id", "day", "hour", "minute", "second", "method", "category",
     "merchant", "amount", "is_failed", "failure_reason", "is_pending",
     "platform", "processing_time", "cashback_roll", "cashback_amount",
     "discount_roll", "discount_amount", "fraud_high", "fraud_night",
     "fraud_generic", "fraud_generic_reason", "refund_roll", "refund_full",
     "refund_amount", "device_type" >>

\* The sites every transaction draws at.
always_drawn ==
  { "user_id", "day", "hour", "minute", "second", "method", "category",
    "merchant", "amount", "is_failed", "platform", "processing_time" }

\* C11 as stated: the device_type draw comes right after the platform draw,
\* so no processing-time, cashback, discount, fraud or refund draw of a
\* transaction that draws its device happens before the device_type draw.
DeviceDrawFollowsPlatform ==
  \A k \in 1..Len(draw_log) :
    (/\ txn.platform \notin {None, "POS Terminal"}
     /\ Index(draw_sites, draw_log[k]) > Index(draw_sites, "platform")
     /\ draw_log[k] # "device_type")
      => \E j \in 1..(k - 1) : draw_log[j] = "device_type"

\* C11 as amended: the draws of a transaction happen in the order of the
\* loop body, each site at most once: user, day, hour, minute, second,
\* method, category, merchant, amount, status, platform, processing time,
\* cashback, discount, fraud, refund and, last of all, device_type.
DrawOrder ==
  /\ \A k \in 1..(Len(draw_log) - 1) :
       Index(draw_sites, draw_log[k]) < Index(draw_sites, draw_log[k + 1])
  /\ (pc = "generate" /\ step = "append") =>
       /\ always_drawn \subseteq {draw_log[k] : k \in 1..Len(draw_log)}
       /\ txn.platform # "POS Terminal" =>
            draw_log[Len(draw_log)] = "device_type"

\* A QR Code transaction is complete: its device was drawn last, after the
\* processing-time, fraud and refund draws.
DrawOrderWitness ==
  /\ pc = "generate" /\ step = "append"
  /\ txn.platform = "QR Code"
  /\ draw_log[Len(draw_log)] = "device_type"
  /\ {"processing_time", "fraud_generic", "refund_roll"}
       \subseteq {draw_log[k] : k \in 1..(Len(draw_log) - 1)}

\* C12: the emitted table is in ascending datetime order, and rows of equal
\* datetime are in the order they were generated in.
SortedStable ==
  pc = "done" =>
    \A i, k \in 1..Len(df) :
      i < k =>
        /\ Timestamp(df[i].transaction_datetime)
             <= Timestamp(df[k].transaction_datetime)
        /\ df[i].transaction_datetime = df[k].transaction_datetime =>
             Index(records, df[i]) < Index(records, df[k])

\* The number a sequence of decimal digits writes.
RECURSIVE DigitsValue(_)
DigitsValue(s) ==
  IF s = <<>> THEN 0
  ELSE DigitsValue(SubSeq(s, 1, Len(s) - 1)) * 10 + s[Len(s)]

\* C13: the i-th generated transaction has the id "TXN" followed by i in
\* seven digits, so the ids are unique and run 1..N in generation order; the
\* sort only permutes the rows, each keeping its id.
IdsSequential ==
  /\ \A i \in 1..Len(records) :
       /\ Len(records[i].transaction_id) = 8
       /\ Head(records[i].transaction_id) = "TXN"
       /\ DigitsValue(Tail(records[i].transaction_id)) = i
  /\ pc = "done" =>
       /\ Len(records) = N
       /\ Len(df) = N
       /\ \A i \in 1..N : \E k \in 1..N : df[k] = records[i]
       /\ \A i, k \in 1..N :
            df[i].transaction_id = df[k].transaction_id => i = k

\* A table was emitted in which a later-generated transaction, being of an
\* earlier date, stands before an earlier-generated one.
IdsSequentialWitness ==
  /\ pc = "done"
  /\ \E i, k \in 1..Len(df) :
       /\ i < k
       /\ DigitsValue(Tail(df[i].transaction_id))
            > DigitsValue(Tail(df[k].transaction_id))
       /\ Timestamp(df[i].transaction_datetime)
            < Timestamp(df[k].transaction_datetime)

\* The steps of the loop body, in order.
body_steps ==
  << "user", "day", "hour", "minute", "second", "method", "category",
     "merchant", "amount", "failed", "failure_reason", "pending", "platform",
     "processing_time", "cashback", "cashback_amount", "discount",
     "discount_amount", "fraud_high", "fraud_night", "fraud_generic",
     "fraud_generic_reason", "refund", "refund_full", "refund_partial",
     "device", "append" >>

\* The steps of the current loop body that may still run.
BodyLeft ==
  IF step \in {"idle", "loop"} THEN 0
  ELSE Len(body_steps) + 1 - Index(body_steps, step)

\* A bound on the steps the generation loop may still take.
GenerateLeft ==
  (N - txn_counter) * (Len(body_steps) + 1) + (NumMonths - mi) + BodyLeft + 1

\* A bound on the steps the run may still take: 0 exactly when it is over.
StepsLeft ==
  LET all_txns == N * (Len(body_steps) + 1) + NumMonths + 1
      sched == all_txns + 2 + NumMonths
  IN  CASE pc \in {"done", "error"} -> 0
        [] pc = "sort" -> 1
        [] pc = "generate" -> 1 + GenerateLeft
        [] pc = "schedule" -> all_txns + 2 + (NumMonths - Len(monthly_txn_counts))
        [] pc = "schedule_init" -> sched + 1
        [] pc = "users" ->
             sched + 2 + (population_size + 1 - ui) * (Len(profile_fields) + 1)
               - Len(profile_draft)
        [] pc = "seed" ->
             sched + 3 + population_size * (Len(profile_fields) + 1)

\* C14: for every population size P and count N the run ends (until it is
\* over, or a defective table has raised, a next step exists, and every step
\* lowers the bound StepsLeft), and
\* it ends with exactly P users of pairwise distinct ids and exactly N
\* transactions, each of a user_id of the user table.
ExactCounts ==
  /\ [](StepsLeft >= 0 /\ (pc \notin {"done", "error"} => ENABLED Next))
  /\ [][StepsLeft' < StepsLeft]_vars
  /\ [](pc = "done" =>
          /\ Len(user_df) = population_size
          /\ \A i, k \in 1..Len(user_df) :
               user_df[i].user_id = user_df[k].user_id => i = k
          /\ Len(df) = N
          /\ \A i \in 1..Len(df) :
               \E k \in 1..Len(user_df) : user_df[k].user_id = df[i].user_id)

\* A run of the largest population and count has ended, with transactions
\* of more than one user.
ExactCountsWitness ==
  /\ pc = "done"
  /\ population_size = MaxUsers
  /\ N = MaxN
  /\ \E i, k \in 1..Len(df) : df[i].user_id # df[k].user_id

\* C15: no generated transaction has a category whose base weight in the
\* category weight table is 0, whatever the month, the weekend flag and the
\* draws.
ZeroWeightExcluded ==
  \A i \in 1..Len(records) :
    cat_weights[Index(categories, records[i].category)] > 0

\* With weight 0 for Food & Dining, on a weekend day of a month that boosts
\* the category, the draw 0.0 (Food & Dining under the default table) gave
\* the next category.
ZeroWeightExcludedWitness ==
  /\ Len(records) = 1
  /\ cat_weights[Index(categories, "Food & Dining")] = 0
  /\ records[1].is_weekend = 1
  /\ SeasonalBoost(records[1].transaction_datetime.month, "Food & Dining") > 10
  /\ stream[Len(profile_fields) + Index(draw_sites, "category")] = 0
  /\ records[1].category = "Shopping"

\* C16: under a configuration defect the run ends in a ConfigurationError
\* raised at startup, before any transaction is begun, and in no other way.
FailFastAtStartup ==
  (table_keys # table_keys_default /\ pc \in {"done", "error"}) =>
    /\ error = "ConfigurationError"
    /\ txn_counter = 0
    /\ records = <<>>

\* The largest-remainder allocation of N over the 24 months: every month
\* its floor share, and one more for the months of the largest remainders
\* (the earlier month first among equals) until N is used up.
LargestRemainder(i) ==
  LET t == total_weight(monthly_multiplier)
      share(j) == N * monthly_multiplier[MonthOf(j)]
      left == N - SumSeq([j \in 1..NumMonths |-> share(j) \div t])
      before == {j \in 1..NumMonths :
                   \/ share(j) % t > share(i) % t
                   \/ share(j) % t = share(i) % t /\ j < i}
  IN  share(i) \div t + (IF Cardinality(before) < left THEN 1 ELSE 0)

\* C17 as stated: in every month, the last included, the scheduler's count
\* and the largest-remainder count differ by at most 1.
WithinOneOfLargestRemainder ==
  Len(monthly_txn_counts) = NumMonths =>
    \A i \in 1..NumMonths :
      /\ monthly_txn_counts[i] - LargestRemainder(i) <= 1
      /\ LargestRemainder(i) - monthly_txn_counts[i] <= 1

\* C17 as amended: in every month but the last the two counts differ by at
\* most 1; the last month's count is never below its largest-remainder
\* count and exceeds it by at most 23, the whole rounding remainder.
WithinOneButLastMonth ==
  Len(monthly_txn_counts) = NumMonths =>
    /\ \A i \in 1..(NumMonths - 1) :
         /\ monthly_txn_counts[i] - LargestRemainder(i) <= 1
         /\ LargestRemainder(i) - monthly_txn_counts[i] <= 1
    /\ monthly_txn_counts[NumMonths] >= LargestRemainder(NumMonths)
    /\ monthly_txn_counts[NumMonths] - LargestRemainder(NumMonths)
         <= NumMonths - 1

\* A schedule whose last month holds at least 20 more than largest
\* remainder gives it, while an earlier month holds one less.
WithinOneButLastMonthWitness ==
  /\ Len(monthly_txn_counts) = NumMonths
  /\ monthly_txn_counts[NumMonths] - LargestRemainder(NumMonths) >= 20
  /\ \E i \in 1..(NumMonths - 1) :
       LargestRemainder(i) - monthly_txn_counts[i] = 1

\* C18: every user has one record, made when the population is created;
\* from then on no step changes a user's record or the set of users, the
\* profile a transaction reads is the stored one, and the emitted user table
\* holds the records as they were created.
UsersFixed ==
  /\ [](\A i, k \in 1..Len(user_profiles) :
          user_profiles[i].user_id = user_profiles[k].user_id => i = k)
  /\ [][pc \notin {"seed", "users"} =>
          /\ user_profiles' = user_profiles
          /\ user_df' = user_df]_vars
  /\ []((pc = "generate" /\ step \notin {"idle", "loop", "user"}) =>
          txn.profile = Lookup(user_profiles, txn.user_id))
  /\ [](pc = "done" => user_df = user_profiles)

\* A run has ended in which a user whose preferred method is UPI paid by
\* Credit Card.
UsersFixedWitness ==
  /\ pc = "done"
  /\ \E i \in 1..Len(df) :
       /\ df[i].payment_method = "Credit Card"
       /\ Lookup(user_df, df[i].user_id).preferred_method = "UPI"

\* C19: every month but the last receives exactly the floor of
\* N * multiplier[month] / (sum of the 24 multipliers); the last receives N
\* minus the other 23 counts, which is not negative and not below its own
\* floor share.
FloorShares ==
  Len(monthly_txn_counts) = NumMonths =>
    /\ \A i \in 1..(NumMonths - 1) :
         monthly_txn_counts[i] =
           MonthCountExact(N, monthly_multiplier, MonthOf(i))
    /\ monthly_txn_counts[NumMonths] =
         N - SumSeq(SubSeq(monthly_txn_counts, 1, NumMonths - 1))
    /\ monthly_txn_counts[NumMonths] >= 0
    /\ monthly_txn_counts[NumMonths] >=
         MonthCountExact(N, monthly_multiplier, MonthOf(NumMonths))

\* The high-amount condition of rule (a), on a transaction or a record.
OverThreshold(t) == t.amount > HighThreshold(t.category) * 100

BaseTablesUntouched ==
  /\ [](method_weights = method_weights_default)
  /\ [][method_weights' = method_weights /\ cat_weights' = cat_weights]_vars

\* Two transactions have been recorded, the first on a weekend (its weekend
\* boost and its preferred-method boost were applied), and the second is
\* about to draw its category.
BaseTablesUntouchedWitness ==
  /\ Len(records) >= 2
  /\ records[1].is_weekend = 1
  /\ records[1].category \in weekend_categories
  /\ pc = "generate" /\ step = "category"

\* The weight the claim gives category k for a date: base weight, times the
\* month's seasonal boost of the category if it has one, times 1.2 on a
\* Saturday or Sunday for the three weekend categories (in 1/10000).
ClaimedCategoryWeights(dt) ==
  [k \in 1..Len(categories) |->
     LET c == categories[k]
         seasonal == IF dt.month \in DOMAIN seasonal_category_boost
                        /\ c \in DOMAIN seasonal_category_boost[dt.month]
                     THEN seasonal_category_boost[dt.month][c] ELSE 10
         weekend == IF Weekday(dt) \in {5, 6}
                       /\ c \in {"Food & Dining", "Entertainment", "Shopping"}
                    THEN 12 ELSE 10
     IN  cat_weights[k] * seasonal * weekend]

\* C22: the category of a transaction is drawn with the weights base x
\* seasonal boost of the month (1 if none) x 1.2 for a weekend category on a
\* weekend (1 otherwise): the boosts multiply when both apply and every
\* other category keeps its base weight.
CategoryBoostsCompose ==
  [][ (pc = "generate" /\ step = "category") =>
        txn'.category =
          Choices(categories, ClaimedCategoryWeights(txn.transaction_datetime),
                  stream'[rng.pos + 1]) ]_vars

\* A transaction of a November weekend has been recorded with a category
\* that has both boosts, and one of a December weekday with a category that
\* has none.
CategoryBoostsComposeWitness ==
  /\ \E i \in 1..Len(records) :
       /\ records[i].transaction_datetime.month = 11
       /\ records[i].is_weekend = 1
       /\ records[i].category = "Shopping"
  /\ \E i \in 1..Len(records) :
       /\ records[i].transaction_datetime.month = 12
       /\ records[i].is_weekend = 0
       /\ records[i].category = "Groceries"

\* C23: the processing time of every generated transaction lies in the
\* range of its status: Success in [0.5, 3.0] s, Failed in [2.0, 15.0] s,
\* Pending in [5.0, 30.0] s.
ProcessingTimeInRange ==
  \A i \in 1..Len(records) :
    LET t == records[i].processing_time_sec
        st == records[i].status
    IN  /\ st \in {"Success", "Failed", "Pending"}
        /\ st = "Success" => (50 <= t /\ t <= 300)
        /\ st = "Failed" => (200 <= t /\ t <= 1500)
        /\ st = "Pending" => (500 <= t /\ t <= 3000)

\* A Pending transaction has been recorded with a processing time above the
\* ranges of the other two statuses.
ProcessingTimeInRangeWitness ==
  \E i \in 1..Len(records) :
    /\ records[i].status = "Pending"
    /\ records[i].processing_time_sec > 1500

\* The day of the week by Zeller's congruence: 0 is Saturday, 1 is Sunday,
\* 2 is Monday, ...; January and February count as months 13 and 14 of the
\* year before.
Zeller(dt) ==
  LET m == IF dt.month <= 2 THEN dt.month + 12 ELSE dt.month
      y == IF dt.month <= 2 THEN dt.year - 1 ELSE dt.year
      K == y % 100
      J == y \div 100
  IN  (dt.day + (13 * (m + 1)) \div 5 + K + K \div 4 + J \div 4 + 5 * J) % 7

\* C24: for every generated transaction, is_weekend is 1 if and only if
\* its date is a Saturday or a Sunday, and 0 otherwise.
WeekendIffSatSun ==
  \A i \in 1..Len(records) :
    /\ records[i].is_weekend \in {0, 1}
    /\ records[i].is_weekend = 1 <=>
         Zeller(records[i].transaction_datetime) \in {0, 1}

\* A Saturday, a Sunday and a weekday transaction have been recorded.
WeekendIffSatSunWitness ==
  /\ \E i \in 1..Len(records) :
       Zeller(records[i].transaction_datetime) = 0 /\ records[i].is_weekend = 1
  /\ \E i \in 1..Len(records) :
       Zeller(records[i].transaction_datetime) = 1 /\ records[i].is_weekend = 1
  /\ \E i \in 1..Len(records) : records[i].is_weekend = 0

\* The day counts of the months of 2024 (a leap year) and 2025.
CalendarDays(y, m) ==
  <<31, (IF y = 2024 THEN 29 ELSE 28), 31, 30, 31, 30, 31, 31, 30, 31, 30, 31>>[m]

\* The rows of the month bucket (y, m).
RowsDated(y, m) ==
  {j \in 1..Len(records) :
     /\ records[j].transaction_datetime.year = y
     /\ records[j].transaction_datetime.month = m}

\* C25: every transaction's datetime is a valid calendar date of 2024-2025
\* inside the month bucket it was scheduled for (day between 1 and the
\* month's day count, 29 for February 2024 and 28 for February 2025), so
\* once the loop is over the number of transactions dated in each month is
\* the scheduler's count for that month.
DatesInBucket ==
  /\ \A j \in 1..Len(records) :
       LET dt == records[j].transaction_datetime
       IN  /\ dt.year \in {2024, 2025}
           /\ dt.month \in 1..12
           /\ dt.day \in 1..CalendarDays(dt.year, dt.month)
           /\ dt.hour \in 0..23 /\ dt.minute \in 0..59 /\ dt.second \in 0..59
  /\ \A i \in 1..Len(monthly_txn_counts) :
       /\ Cardinality(RowsDated(2024 + (i - 1) \div 12, ((i - 1) % 12) + 1))
            <= monthly_txn_counts[i]
       /\ pc \in {"sort", "done"} =>
            Cardinality(RowsDated(2024 + (i - 1) \div 12, ((i - 1) % 12) + 1))
              = monthly_txn_counts[i]

\* The run is over with a transaction on 29 February 2024, one on
\* 28 February 2025 and one in December 2025.
DatesInBucketWitness ==
  /\ pc = "done"
  /\ \E j \in 1..Len(records) :
       LET dt == records[j].transaction_datetime
       IN  dt.year = 2024 /\ dt.month = 2 /\ dt.day = 29
  /\ \E j \in 1..Len(records) :
       LET dt == records[j].transaction_datetime
       IN  dt.year = 2025 /\ dt.month = 2 /\ dt.day = 28
  /\ RowsDated(2025, 12) # {}

\* C26: the failure_reason of every Failed transaction is an element of the
\* failure-reason list of that transaction's payment method.
FailureReasonOfMethod ==
  \A i \in 1..Len(records) :
    records[i].status = "Failed" =>
      \E k \in 1..Len(failure_reasons[records[i].payment_method]) :
        failure_reasons[records[i].payment_method][k] = records[i].failure_reason

\* A failed Credit Card transaction has been recorded with the last reason
\* of the Credit Card list, which no other method has.
FailureReasonOfMethodWitness ==
  \E i \in 1..Len(records) :
    /\ records[i].status = "Failed"
    /\ records[i].payment_method = "Credit Card"
    /\ records[i].failure_reason = "3D Auth Failed"

\* C27: after the cleaning stage's null handling, every Success or Pending
\* transaction has failure_reason equal to the text 'None', and only Failed
\* transactions keep another value.
CleanedReasonNoneUnlessFailed ==
  \A i \in 1..Len(cleaned) :
    /\ cleaned[i].status \in {"Success", "Pending"} =>
         cleaned[i].failure_reason = "None"
    /\ cleaned[i].failure_reason # "None" => cleaned[i].status = "Failed"

\* C28: the cleaning stage's is_month_end is 1 exactly for the transactions
\* dated within the last 5 days of their calendar month, whatever its length
\* (28, 29, 30 or 31 days), and is_month_start is 1 exactly for those dated
\* within the first 5 days.
MonthEdgeFlags ==
  \A i \in 1..Len(cleaned) :
    LET dt == cleaned[i].transaction_datetime
    IN  /\ cleaned[i].is_month_end = 1 <=>
             dt.day > CalendarDays(dt.year, dt.month) - 5
        /\ cleaned[i].is_month_end \in {0, 1}
        /\ cleaned[i].is_month_start = 1 <=> dt.day <= 5
        /\ cleaned[i].is_month_start \in {0, 1}

\* C29: for every generated transaction, is_flagged is true if and only if
\* fraud_reason is present, and the reason matches the rule that set it:
\* 'Unusually High Amount' implies an amount above the category's high-value
\* threshold, 'Suspicious Late Night Transaction' implies an hour in 0..4 and
\* an amount above 5000; any other reason is one of the generic reasons.
FlagAndReasonAgree ==
  \A i \in 1..Len(records) :
    LET r == records[i]
    IN  /\ r.is_flagged <=> r.fraud_reason # None
        /\ r.fraud_reason = "Unusually High Amount" =>
             r.amount > HighThreshold(r.category) * 100
        /\ r.fraud_reason = "Suspicious Late Night Transaction" =>
             /\ r.transaction_datetime.hour \in {0, 1, 2, 3, 4}
             /\ r.amount > 5000 * 100
        /\ r.fraud_reason \in
             {None, "Unusually High Amount", "Suspicious Late Night Transaction"}
               \cup {generic_fraud_reasons[k] : k \in DOMAIN generic_fraud_reasons}

\* A transaction below its category's threshold has been recorded with the
\* late-night reason.
FlagAndReasonAgreeWitness ==
  \E i \in 1..Len(records) :
    /\ records[i].is_flagged
    /\ records[i].fraud_reason = "Suspicious Late Night Transaction"
    /\ records[i].amount <= HighThreshold(records[i].category) * 100

\* C30: for every generated transaction cashback_earned <= 0.10 * amount and
\* discount_applied <= 0.20 * amount, up to the rounding to 2 decimals (half
\* a paisa), so cashback_earned + discount_applied < amount; and in the
\* cleaned table net_amount is amount - discount - cashback, above 0: the
\* clip at 0 changes no value.
SavingsBelowAmount ==
  /\ \A i \in 1..Len(records) :
       LET r == records[i]
       IN  /\ 10 * r.cashback_earned <= r.amount + 5
           /\ 10 * r.discount_applied <= 2 * r.amount + 5
           /\ r.cashback_earned + r.discount_applied < r.amount
  /\ \A i \in 1..Len(cleaned) :
       LET c == cleaned[i]
       IN  /\ c.net_amount = c.amount - c.discount_applied - c.cashback_earned
           /\ c.net_amount > 0
           /\ \E j \in 1..Len(records) :
                /\ records[j].transaction_id = c.transaction_id
                /\ records[j].amount = c.amount
                /\ records[j].cashback_earned = c.cashback_earned
                /\ records[j].discount_applied = c.discount_applied

\* A transaction with cashback and discount both near the top of their
\* ranges (together above 29% of the amount) has been cleaned.
SavingsBelowAmountWitness ==
  \E i \in 1..Len(cleaned) :
    /\ cleaned[i].cashback_earned > 0
    /\ cleaned[i].discount_applied > 0
    /\ 100 * cleaned[i].total_savings > 29 * cleaned[i].amount

====
